---- MODULE Spec2Model ----
(***************************************************************************)
(* Model of actix-web's src/responder.rs: the Responder trait, its         *)
(* implementations for the primitive value shapes, Option, Result, tuples, *)
(* CustomResponder, Either and InternalError, and the futures that these   *)
(* conversions return (CustomResponderFut, EitherResponder,                *)
(* ResponseFuture), polled by an external driver.                          *)
(***************************************************************************)
EXTENDS Integers, Sequences, FiniteSets, TLC

(* ---------------------------------------------------------------------- *)
(* Bounds of the model                                                     *)
(* ---------------------------------------------------------------------- *)
\* number of composition steps (wrapping / with_status / with_header calls)
MaxOps == 2
\* number of polls a handler-provided future may stay pending
MaxDelay == 1

(* ---------------------------------------------------------------------- *)
(* Value spaces                                                            *)
(* ---------------------------------------------------------------------- *)
OK == 200
BAD_REQUEST == 400
NOT_FOUND == 404

CONTENT_TYPE == "content-type"
X_VERSION == "x-version"
HeaderNames == {CONTENT_TYPE, X_VERSION}

\* the bytes of "test"
TestBytes == <<116, 101, 115, 116>>
Inputs == {<< >>, TestBytes}

\* status codes used for overrides
OverrideStatuses == {OK, BAD_REQUEST}

\* raw header keys and values handed to with_header
RawKeys == {"content-type", "X-Version", "bad name"}
RawValues == {"json", "1.2.3", "bad\nvalue"}

(* Option<T> *)
None == [some |-> FALSE]
Some(v) == [some |-> TRUE, v |-> v]

(* Result<Response, E> *)
Ok(r) == [ok |-> TRUE, resp |-> r]
Err(e) == [ok |-> FALSE, err |-> e]

(* ---------------------------------------------------------------------- *)
(* External collaborators: header map, body, response, builder, errors     *)
(* ---------------------------------------------------------------------- *)
\* a multimap: every name holds the sequence of its values
HeaderMap_new == [n \in HeaderNames |-> << >>]

\* insert replaces all values of the name
HeaderMap_insert(m, k, v) == [m EXCEPT ![k] = <<v>>]

\* append adds a value to the name, keeping the earlier ones
HeaderMap_append(m, k, v) == [m EXCEPT ![k] = Append(@, v)]

\* get returns the first value of the name
HeaderMap_get(m, k) == IF m[k] = << >> THEN None ELSE Some(m[k][1])

\* the (name, value) entries in iteration order: names in map order, the
\* values of one name in the order they were appended
HeaderMap_iter(m) ==
    [i \in 1..Len(m[CONTENT_TYPE]) |-> <<CONTENT_TYPE, m[CONTENT_TYPE][i]>>]
    \o [i \in 1..Len(m[X_VERSION]) |-> <<X_VERSION, m[X_VERSION][i]>>]

\* HeaderName::try_from: names are lower-cased, invalid characters rejected
HeaderName_try_from(key) ==
    CASE key = "content-type" -> [ok |-> TRUE, v |-> CONTENT_TYPE]
      [] key = "X-Version" -> [ok |-> TRUE, v |-> X_VERSION]
      [] key = "x-version" -> [ok |-> TRUE, v |-> X_VERSION]
      [] OTHER -> [ok |-> FALSE, v |-> "InvalidHeaderName"]

\* IntoHeaderValue::try_into: control characters are rejected
IntoHeaderValue_try_into(value) ==
    IF value = "bad\nvalue"
    THEN [ok |-> FALSE, v |-> "InvalidHeaderValue"]
    ELSE [ok |-> TRUE, v |-> value]

Body_Empty == [kind |-> "Empty", bytes |-> << >>]
Body_from(data) == [kind |-> "Bytes", bytes |-> data]

\* Response::build(status)
Response_build(status) == [status |-> status, headers |-> HeaderMap_new]

\* ResponseBuilder::content_type
Builder_content_type(b, v) ==
    [b EXCEPT !.headers = HeaderMap_insert(@, CONTENT_TYPE, v)]

\* ResponseBuilder::body
Builder_body(b, data) ==
    [status |-> b.status, headers |-> b.headers, body |-> Body_from(data)]

\* ResponseBuilder::finish
Builder_finish(b) ==
    [status |-> b.status, headers |-> b.headers, body |-> Body_Empty]

\* error payloads: an InternalError carrying a status, a handler's own error
InternalError_new(cause, status) ==
    [name |-> "InternalError", cause |-> cause, status |-> status]
HandlerError == [name |-> "HandlerError", cause |-> << >>, status |-> 500]

\* a failure of a responder's own error type, not yet the normalized Error
Raw(e) == [norm |-> FALSE, e |-> e]

\* Into<Error>: the normalized Error holding the same cause
Error_from(e) == [norm |-> TRUE, e |-> e]
into_Error(x) == Error_from(x.e)

\* From<Error> for Response: the error rendered with its status code
Response_from_error(err) ==
    [status |-> err.e.status,
     headers |-> HeaderMap_insert(HeaderMap_new, CONTENT_TYPE,
                                  "text/plain; charset=utf-8"),
     body |-> Body_from(err.e.cause)]

(* ---------------------------------------------------------------------- *)
(* Futures                                                                 *)
(* ---------------------------------------------------------------------- *)
\* futures::future::{ok, err}: a future that is ready with its value
Ready(res) == [kind |-> "Ready", out |-> Some(res)]

\* the future of a handler-provided responder: pending for `remaining`
\* polls, then resolved to `out`
HandlerFut(remaining, res) ==
    [kind |-> "HandlerFut", remaining |-> remaining, out |-> res]

EitherFuture_Left(f) == [kind |-> "EitherFuture", side |-> "Left", fut |-> f]
EitherFuture_Right(f) == [kind |-> "EitherFuture", side |-> "Right", fut |-> f]

ResponseFuture_new(f) == [kind |-> "ResponseFuture", fut |-> f]

CustomResponderFut(f, status, headers) ==
    [kind |-> "CustomResponderFut", fut |-> f, status |-> status,
     headers |-> headers]

EitherResponder_A(f) == [kind |-> "EitherResponder", tag |-> "A", fut |-> f]
EitherResponder_B(f) == [kind |-> "EitherResponder", tag |-> "B", fut |-> f]

Pending(f) == [ready |-> FALSE, out |-> None, fut |-> f]
PollReady(res, f) == [ready |-> TRUE, out |-> Some(res), fut |-> f]

\* Result::map_err(|e| e.into())
map_err_into(res) == IF res.ok THEN res ELSE Err(into_Error(res.err))

(* ---------------------------------------------------------------------- *)
(* Polling                                                                 *)
(* ---------------------------------------------------------------------- *)
\* Ready::poll: hands out the value it holds
Ready_poll(this) == PollReady(this.out.v, [this EXCEPT !.out = None])

\* a handler-provided future: suspends while work remains
HandlerFut_poll(this) ==
    IF this.remaining > 0
    THEN Pending([this EXCEPT !.remaining = @ - 1])
    ELSE PollReady(this.out, this)

\* futures::future::Either::poll: the poll of the side it holds
EitherFuture_poll(this, p) == [p EXCEPT !.fut = [this EXCEPT !.fut = p.fut]]

\* for (k, v) in headers { res.headers_mut().insert(k.clone(), v.clone()) }
RECURSIVE InsertAll(_, _)
InsertAll(m, entries) ==
    IF entries = << >> THEN m
    ELSE InsertAll(HeaderMap_insert(m, Head(entries)[1], Head(entries)[2]),
                   Tail(entries))

\* CustomResponderFut::poll with the header map of the response replaced by
\* the overrides instead of the overrides inserted one by one
CustomResponderFut_poll_replacing(this, p) ==
    IF ~p.ready THEN Pending([this EXCEPT !.fut = p.fut])
    ELSE IF ~p.out.v.ok
    THEN PollReady(Err(p.out.v.err), [this EXCEPT !.fut = p.fut])
    ELSE LET res0 == p.out.v.resp
             res1 == IF this.status.some
                     THEN [res0 EXCEPT !.status = this.status.v]
                     ELSE res0
             res2 == IF this.headers.some
                     THEN [res1 EXCEPT !.headers =
                              InsertAll(HeaderMap_new,
                                        HeaderMap_iter(this.headers.v))]
                     ELSE res1
         IN PollReady(Ok(res2),
                      [this EXCEPT !.fut = p.fut, !.status = None])

\* CustomResponderFut::poll with a failure rendered as a response and the
\* overrides applied to it
CustomResponderFut_poll_overriding_failures(this, p) ==
    IF ~p.ready THEN Pending([this EXCEPT !.fut = p.fut])
    ELSE LET res0 == IF p.out.v.ok THEN p.out.v.resp
                     ELSE Response_from_error(into_Error(p.out.v.err))
             res1 == IF this.status.some
                     THEN [res0 EXCEPT !.status = this.status.v]
                     ELSE res0
             res2 == IF this.headers.some
                     THEN [res1 EXCEPT !.headers =
                              InsertAll(@, HeaderMap_iter(this.headers.v))]
                     ELSE res1
         IN PollReady(Ok(res2),
                      [this EXCEPT !.fut = p.fut, !.status = None])

\* CustomResponderFut::poll taking the status override before the wrapped
\* future is ready, so that a pending poll loses it
CustomResponderFut_poll_taking_early(this, p) ==
    IF ~p.ready THEN Pending([this EXCEPT !.fut = p.fut, !.status = None])
    ELSE IF ~p.out.v.ok
    THEN PollReady(Err(p.out.v.err), [this EXCEPT !.fut = p.fut])
    ELSE LET res0 == p.out.v.resp
             res1 == IF this.status.some
                     THEN [res0 EXCEPT !.status = this.status.v]
                     ELSE res0
             res2 == IF this.headers.some
                     THEN [res1 EXCEPT !.headers =
                              InsertAll(@, HeaderMap_iter(this.headers.v))]
                     ELSE res1
         IN PollReady(Ok(res2),
                      [this EXCEPT !.fut = p.fut, !.status = None])

\* CustomResponderFut::poll, p being the poll of this.fut
CustomResponderFut_poll(this, p) ==
    IF ~p.ready THEN Pending([this EXCEPT !.fut = p.fut])
    ELSE IF ~p.out.v.ok
    THEN PollReady(Err(p.out.v.err), [this EXCEPT !.fut = p.fut])
    ELSE LET res0 == p.out.v.resp
             res1 == IF this.status.some
                     THEN [res0 EXCEPT !.status = this.status.v]
                     ELSE res0
             res2 == IF this.headers.some
                     THEN [res1 EXCEPT !.headers =
                              InsertAll(@, HeaderMap_iter(this.headers.v))]
                     ELSE res1
         IN PollReady(Ok(res2),
                      [this EXCEPT !.fut = p.fut, !.status = None])

\* EitherResponder::poll, p being the poll of the branch it holds
EitherResponder_poll(this, p) ==
    IF ~p.ready THEN Pending([this EXCEPT !.fut = p.fut])
    ELSE IF this.tag = "A"
    THEN PollReady(map_err_into(p.out.v), [this EXCEPT !.fut = p.fut])
    ELSE PollReady(map_err_into(p.out.v), [this EXCEPT !.fut = p.fut])

\* ResponseFuture::poll, p being the poll of this.fut
ResponseFuture_poll(this, p) ==
    IF ~p.ready THEN Pending([this EXCEPT !.fut = p.fut])
    ELSE PollReady(map_err_into(p.out.v), [this EXCEPT !.fut = p.fut])

\* Future::poll, dispatched on the type of the future
RECURSIVE poll(_)
poll(f) ==
    CASE f.kind = "Ready" -> Ready_poll(f)
      [] f.kind = "HandlerFut" -> HandlerFut_poll(f)
      [] f.kind = "EitherFuture" -> EitherFuture_poll(f, poll(f.fut))
      [] f.kind = "CustomResponderFut" ->
             CustomResponderFut_poll(f, poll(f.fut))
      [] f.kind = "EitherResponder" -> EitherResponder_poll(f, poll(f.fut))
      [] f.kind = "ResponseFuture" -> ResponseFuture_poll(f, poll(f.fut))

\* .await: the future polled until it is ready; the value it resolves to,
\* the number of polls and how many of them returned Poll::Pending
RECURSIVE await(_)
await(f) ==
    LET p == poll(f)
    IN IF p.ready THEN [out |-> p.out.v, polls |-> 1, pendings |-> 0]
       ELSE LET r == await(p.fut)
            IN [out |-> r.out, polls |-> r.polls + 1,
                pendings |-> r.pendings + 1]

(* ---------------------------------------------------------------------- *)
(* Responder values                                                        *)
(* ---------------------------------------------------------------------- *)
Unit == [kind |-> "Unit"]
StaticStr(data) == [kind |-> "StaticStr", data |-> data]
StaticSlice(data) == [kind |-> "StaticSlice", data |-> data]
String(data) == [kind |-> "String", data |-> data]
RefString(data) == [kind |-> "RefString", data |-> data]
Bytes(data) == [kind |-> "Bytes", data |-> data]
BytesMut(data) == [kind |-> "BytesMut", data |-> data]
PrebuiltResponse(resp) == [kind |-> "Response", resp |-> resp]
ResponseBuilder(b) == [kind |-> "ResponseBuilder", builder |-> b]
InternalError(cause, status) ==
    [kind |-> "InternalError", e |-> InternalError_new(cause, status)]
\* a responder defined by a handler: its future suspends `delay` times and
\* then resolves to `out`, a Result<Response, its own error type>
Handler(delay, res) == [kind |-> "Handler", delay |-> delay, out |-> res]
OptionNone == [kind |-> "Option", opt |-> None]
OptionSome(t) == [kind |-> "Option", opt |-> Some(t)]
ResultOk(val) == [kind |-> "Result", res |-> [ok |-> TRUE, val |-> val]]
ResultErr(e) == [kind |-> "Result", res |-> [ok |-> FALSE, err |-> e]]
Tuple(t, status) == [kind |-> "Tuple", inner |-> t, status |-> status]
Either_A(a) == [kind |-> "Either", tag |-> "A", inner |-> a]
Either_B(b) == [kind |-> "Either", tag |-> "B", inner |-> b]

TextKinds == {"StaticStr", "String", "RefString"}
ByteKinds == {"StaticSlice", "Bytes", "BytesMut"}
PrimitiveKinds == {"Unit"} \cup TextKinds \cup ByteKinds

(* CustomResponder *)
CustomResponder_new(responder) ==
    [kind |-> "CustomResponder", responder |-> responder, status |-> None,
     headers |-> None, error |-> None]

\* with_status keeping the status of the first call
CustomResponder_with_status_first_wins(this, status) ==
    IF this.status.some THEN this ELSE [this EXCEPT !.status = Some(status)]

CustomResponder_with_status(this, status) ==
    [this EXCEPT !.status = Some(status)]

CustomResponder_with_header(this, key, value) ==
    LET hs == IF ~this.headers.some THEN Some(HeaderMap_new)
              ELSE this.headers
        k == HeaderName_try_from(key)
        v == IntoHeaderValue_try_into(value)
    IN IF k.ok
       THEN IF v.ok
            THEN [this EXCEPT !.headers =
                                 Some(HeaderMap_append(hs.v, k.v, v.v))]
            ELSE [this EXCEPT !.headers = hs, !.error = Some(v.v)]
       ELSE [this EXCEPT !.headers = hs, !.error = Some(k.v)]

\* the provided methods of the Responder trait: a new decorator around the
\* value, whatever the value is, on which the one call is made
with_status(this, status) ==
    CustomResponder_with_status(CustomResponder_new(this), status)

with_header(this, key, value) ==
    CustomResponder_with_header(CustomResponder_new(this), key, value)

(* ---------------------------------------------------------------------- *)
(* respond_to                                                              *)
(* ---------------------------------------------------------------------- *)
\* a conversion: the future it returns and the respond_to calls it made
Conv(f, calls) == [fut |-> f, calls |-> calls]
NotInvoked == [fut |-> None, calls |-> << >>]

Response_respond_to(this) == Conv(Ready(Ok(this.resp)), <<"Response">>)

\* Option::respond_to answering None with an empty 200 response
Option_respond_to_none_ok(this, inner) ==
    IF this.opt.some
    THEN Conv(EitherFuture_Left(inner.fut), <<"Option">> \o inner.calls)
    ELSE Conv(EitherFuture_Right(
                  Ready(Ok(Builder_finish(Response_build(OK))))),
              <<"Option">>)

\* inner: the conversion of the value held by Some
Option_respond_to(this, inner) ==
    IF this.opt.some
    THEN Conv(EitherFuture_Left(inner.fut), <<"Option">> \o inner.calls)
    ELSE Conv(EitherFuture_Right(
                  Ready(Ok(Builder_finish(Response_build(NOT_FOUND))))),
              <<"Option">>)

\* Result::respond_to rendering Err(e) as a response, as InternalError does
Result_respond_to_rendering_err(this, inner) ==
    IF this.res.ok
    THEN Conv(EitherFuture_Left(ResponseFuture_new(inner.fut)),
              <<"Result">> \o inner.calls)
    ELSE Conv(EitherFuture_Right(
                  Ready(Ok(Response_from_error(Error_from(this.res.err))))),
              <<"Result">>)

\* inner: the conversion of the value held by Ok
Result_respond_to(this, inner) ==
    IF this.res.ok
    THEN Conv(EitherFuture_Left(ResponseFuture_new(inner.fut)),
              <<"Result">> \o inner.calls)
    ELSE Conv(EitherFuture_Right(Ready(Err(Error_from(this.res.err)))),
              <<"Result">>)

ResponseBuilder_respond_to(this) ==
    Conv(Ready(Ok(Builder_finish(this.builder))), <<"ResponseBuilder">>)

Unit_respond_to(this) ==
    Conv(Ready(Ok(Builder_finish(Response_build(OK)))), <<"Unit">>)

Tuple_respond_to(this, inner) ==
    Conv(CustomResponderFut(inner.fut, Some(this.status), None),
         <<"Tuple">> \o inner.calls)

StaticStr_respond_to(this) ==
    Conv(Ready(Ok(Builder_body(
             Builder_content_type(Response_build(OK),
                                  "text/plain; charset=utf-8"),
             this.data))), <<"StaticStr">>)

StaticSlice_respond_to(this) ==
    Conv(Ready(Ok(Builder_body(
             Builder_content_type(Response_build(OK),
                                  "application/octet-stream"),
             this.data))), <<"StaticSlice">>)

\* String::respond_to with the content-type of the byte shapes
String_respond_to_octet_stream(this) ==
    Conv(Ready(Ok(Builder_body(
             Builder_content_type(Response_build(OK),
                                  "application/octet-stream"),
             this.data))), <<"String">>)

String_respond_to(this) ==
    Conv(Ready(Ok(Builder_body(
             Builder_content_type(Response_build(OK),
                                  "text/plain; charset=utf-8"),
             this.data))), <<"String">>)

RefString_respond_to(this) ==
    Conv(Ready(Ok(Builder_body(
             Builder_content_type(Response_build(OK),
                                  "text/plain; charset=utf-8"),
             this.data))), <<"RefString">>)

Bytes_respond_to(this) ==
    Conv(Ready(Ok(Builder_body(
             Builder_content_type(Response_build(OK),
                                  "application/octet-stream"),
             this.data))), <<"Bytes">>)

BytesMut_respond_to(this) ==
    Conv(Ready(Ok(Builder_body(
             Builder_content_type(Response_build(OK),
                                  "application/octet-stream"),
             this.data))), <<"BytesMut">>)

\* CustomResponder::respond_to failing when a construction error is pending
CustomResponder_respond_to_surfacing_error(this, inner) ==
    IF this.error.some
    THEN Conv(Ready(Err(Error_from(
                  [name |-> this.error.v, cause |-> << >>,
                   status |-> BAD_REQUEST]))),
              <<"CustomResponder">>)
    ELSE Conv(CustomResponderFut(inner.fut, this.status, this.headers),
              <<"CustomResponder">> \o inner.calls)

CustomResponder_respond_to(this, inner) ==
    Conv(CustomResponderFut(inner.fut, this.status, this.headers),
         <<"CustomResponder">> \o inner.calls)

\* Either::respond_to tagging both branches A
Either_respond_to_always_A(this, inner) ==
    IF this.tag = "A"
    THEN Conv(EitherResponder_A(inner.fut), <<"Either">> \o inner.calls)
    ELSE Conv(EitherResponder_A(inner.fut), <<"Either">> \o inner.calls)

Either_respond_to(this, inner) ==
    IF this.tag = "A"
    THEN Conv(EitherResponder_A(inner.fut), <<"Either">> \o inner.calls)
    ELSE Conv(EitherResponder_B(inner.fut), <<"Either">> \o inner.calls)

\* InternalError::respond_to resolving to the error itself
InternalError_respond_to_failing(this) ==
    LET err == Error_from(this.e)
    IN Conv(Ready(Err(err)), <<"InternalError">>)

InternalError_respond_to(this) ==
    LET err == Error_from(this.e)
    IN Conv(Ready(Ok(Response_from_error(err))), <<"InternalError">>)

Handler_respond_to(this) ==
    Conv(HandlerFut(this.delay, this.out), <<"Handler">>)

\* Responder::respond_to, dispatched on the type of the value
RECURSIVE respond_to(_)
respond_to(r) ==
    CASE r.kind = "Response" -> Response_respond_to(r)
      [] r.kind = "Option" ->
             Option_respond_to(r, IF r.opt.some THEN respond_to(r.opt.v)
                                  ELSE NotInvoked)
      [] r.kind = "Result" ->
             Result_respond_to(r, IF r.res.ok THEN respond_to(r.res.val)
                                  ELSE NotInvoked)
      [] r.kind = "ResponseBuilder" -> ResponseBuilder_respond_to(r)
      [] r.kind = "Unit" -> Unit_respond_to(r)
      [] r.kind = "Tuple" -> Tuple_respond_to(r, respond_to(r.inner))
      [] r.kind = "StaticStr" -> StaticStr_respond_to(r)
      [] r.kind = "StaticSlice" -> StaticSlice_respond_to(r)
      [] r.kind = "String" -> String_respond_to(r)
      [] r.kind = "RefString" -> RefString_respond_to(r)
      [] r.kind = "Bytes" -> Bytes_respond_to(r)
      [] r.kind = "BytesMut" -> BytesMut_respond_to(r)
      [] r.kind = "CustomResponder" ->
             CustomResponder_respond_to(r, respond_to(r.responder))
      [] r.kind = "Either" -> Either_respond_to(r, respond_to(r.inner))
      [] r.kind = "InternalError" -> InternalError_respond_to(r)
      [] r.kind = "Handler" -> Handler_respond_to(r)

(* ---------------------------------------------------------------------- *)
(* The state machine: a handler builds its return value, the dispatcher    *)
(* converts it once and polls the future until it is ready                 *)
(* ---------------------------------------------------------------------- *)
VARIABLES
    phase,      \* "build", "poll" or "done"
    responder,  \* the handler's return value
    ops,        \* composition steps applied to it
    fut,        \* the future returned by respond_to
    calls,      \* the respond_to calls made by the conversion
    chain,      \* the with_status / with_header calls made on the decorator
                \* that is the handler's return value, oldest first: the
                \* call that created it and the calls made on it since
    polls,      \* polls of the future so far
    pendings,   \* polls that returned Poll::Pending
    out         \* the value of the poll that returned Poll::Ready

vars == <<phase, responder, ops, chain, fut, calls, polls, pendings, out>>

\* a response built by a handler itself
BuiltResponse ==
    [status |-> BAD_REQUEST,
     headers |-> HeaderMap_insert(
                     HeaderMap_insert(HeaderMap_new, X_VERSION, "0.9"),
                     CONTENT_TYPE, "text/html"),
     body |-> Body_from(TestBytes)]

HandlerOutcomes == {Ok(BuiltResponse), Err(Raw(HandlerError))}

Errors == {InternalError_new(<<101>>, BAD_REQUEST), HandlerError}

Leaves ==
    {Unit, OptionNone}
    \cup {StaticStr(d) : d \in Inputs} \cup {StaticSlice(d) : d \in Inputs}
    \cup {String(d) : d \in Inputs} \cup {RefString(d) : d \in Inputs}
    \cup {Bytes(d) : d \in Inputs} \cup {BytesMut(d) : d \in Inputs}
    \cup {PrebuiltResponse(BuiltResponse)}
    \cup {ResponseBuilder(Response_build(NOT_FOUND))}
    \cup {InternalError(<<101>>, BAD_REQUEST)}
    \cup {ResultErr(e) : e \in Errors}
    \cup {Handler(d, o) : d \in 0..MaxDelay, o \in HandlerOutcomes}

Init ==
    /\ phase = "build"
    /\ responder \in Leaves
    /\ ops = 0
    /\ chain = << >>
    /\ fut = None
    /\ calls = << >>
    /\ polls = 0
    /\ pendings = 0
    /\ out = None

\* a call of with_status or with_header
StatusCall(s) == [op |-> "with_status", status |-> s, key |-> "", value |-> ""]
HeaderCall(k, v) == [op |-> "with_header", status |-> 0, key |-> k, value |-> v]

Compose(r, c) ==
    /\ phase = "build"
    /\ ops < MaxOps
    /\ responder' = r
    /\ chain' = c
    /\ ops' = ops + 1
    /\ UNCHANGED <<phase, fut, calls, polls, pendings, out>>

WrapSome == Compose(OptionSome(responder), << >>)

WrapOk == Compose(ResultOk(responder), << >>)

WrapEitherA == Compose(Either_A(responder), << >>)

WrapEitherB == Compose(Either_B(responder), << >>)

WrapTuple ==
    \E s \in OverrideStatuses : Compose(Tuple(responder, s), << >>)

\* Responder::with_status: the value, a decorator or not, is wrapped in a
\* new decorator, on which this is the only call
WithStatus ==
    \E s \in OverrideStatuses :
        Compose(with_status(responder, s), <<StatusCall(s)>>)

\* Responder::with_header, likewise
WithHeader ==
    \E k \in RawKeys, v \in RawValues :
        Compose(with_header(responder, k, v), <<HeaderCall(k, v)>>)

\* CustomResponder::with_status: a further call on the decorator itself
CustomWithStatus ==
    /\ responder.kind = "CustomResponder"
    /\ \E s \in OverrideStatuses :
           Compose(CustomResponder_with_status(responder, s),
                   Append(chain, StatusCall(s)))

\* CustomResponder::with_header: a further call on the decorator itself
CustomWithHeader ==
    /\ responder.kind = "CustomResponder"
    /\ \E k \in RawKeys, v \in RawValues :
           Compose(CustomResponder_with_header(responder, k, v),
                   Append(chain, HeaderCall(k, v)))

RespondTo ==
    /\ phase = "build"
    /\ phase' = "poll"
    /\ fut' = respond_to(responder).fut
    /\ calls' = respond_to(responder).calls
    /\ UNCHANGED <<responder, ops, chain, polls, pendings, out>>

Poll ==
    /\ phase = "poll"
    /\ LET p == poll(fut)
       IN /\ fut' = p.fut
          /\ polls' = polls + 1
          /\ pendings' = IF p.ready THEN pendings ELSE pendings + 1
          /\ out' = p.out
          /\ phase' = IF p.ready THEN "done" ELSE "poll"
    /\ UNCHANGED <<responder, ops, chain, calls>>

Next ==
    \/ WrapSome
    \/ WrapOk
    \/ WrapEitherA
    \/ WrapEitherB
    \/ WrapTuple
    \/ WithStatus
    \/ WithHeader
    \/ CustomWithStatus
    \/ CustomWithHeader
    \/ RespondTo
    \/ Poll

Spec == Init /\ [][Next]_vars

\* the values whose future the driver may have to poll more than once, and
\* one value that is ready at once
PolledLeaves ==
    {Handler(d, o) : d \in 0..MaxDelay, o \in HandlerOutcomes}
    \cup {String(TestBytes)}

InitPolled ==
    /\ Init
    /\ responder \in PolledLeaves

\* the compositions over these values, with a driver that keeps polling the
\* future until it is ready
FairSpec == InitPolled /\ [][Next]_vars /\ WF_vars(Poll)

TypeOK ==
    /\ phase \in {"build", "poll", "done"}
    /\ ops \in 0..MaxOps
    /\ polls \in Nat
    /\ pendings \in Nat

(* ---------------------------------------------------------------------- *)
(* Properties                                                              *)
(* ---------------------------------------------------------------------- *)
Converted == phase \in {"poll", "done"}
Done == phase = "done"

\* the outcome of converting and awaiting a value on its own
Outcome(r) == await(respond_to(r).fut)

\* the content-type the documentation gives for a primitive value
DocumentedContentType(r) ==
    IF r.kind \in TextKinds THEN Some("text/plain; charset=utf-8")
    ELSE IF r.kind \in ByteKinds THEN Some("application/octet-stream")
    ELSE None

\* C1: a primitive value ((), &'static str, String, &String, &'static [u8],
\* Bytes, BytesMut) is never seen pending, and its first poll resolves to a
\* success with status 200, a body holding the bytes of the input (the empty
\* body for ()) and the content-type of its shape (none for ()).
C1_PrimitivesResolveAtOnce ==
    responder.kind \in PrimitiveKinds =>
        /\ pendings = 0
        /\ Done =>
            /\ polls = 1
            /\ out.some /\ out.v.ok
            /\ out.v.resp.status = 200
            /\ HeaderMap_get(out.v.resp.headers, CONTENT_TYPE)
                   = DocumentedContentType(responder)
            /\ IF responder.kind = "Unit"
               THEN out.v.resp.body = Body_Empty
               ELSE /\ out.v.resp.body.kind = "Bytes"
                    /\ out.v.resp.body.bytes = responder.data

C1_Witness ==
    /\ Done
    /\ responder.kind = "BytesMut"
    /\ responder.data = TestBytes
    /\ out.v.resp.body.bytes = TestBytes

\* C2: None resolves on the first poll to a success with status 404 and an
\* empty body; Some(t) resolves to the outcome of t.respond_to, after as many
\* polls and as many suspensions as t's own future takes.
C2_OptionDelegatesOrNotFound ==
    responder.kind = "Option" =>
        IF responder.opt.some
        THEN Done =>
                /\ out.v = Outcome(responder.opt.v).out
                /\ polls = Outcome(responder.opt.v).polls
                /\ pendings = Outcome(responder.opt.v).pendings
        ELSE /\ pendings = 0
             /\ Done =>
                 /\ polls = 1
                 /\ out.v.ok
                 /\ out.v.resp.status = 404
                 /\ out.v.resp.body = Body_Empty

\* Some(None): the outer Option delegates to the inner one, which is absent
C2_Witness ==
    /\ Done
    /\ responder.kind = "Option" /\ responder.opt.some
    /\ responder.opt.v.kind = "Option" /\ ~responder.opt.v.opt.some
    /\ out.v.ok /\ out.v.resp.status = 404

\* C3: Err(e) resolves on the first poll to the failure e converted into
\* Error, and makes no respond_to call besides its own; Ok(v) resolves to
\* v's response when v succeeds and to v's failure converted into Error when
\* v fails.
C3_ResultShortCircuits ==
    responder.kind = "Result" =>
        IF responder.res.ok
        THEN Done =>
                LET inner == Outcome(responder.res.val).out
                IN IF inner.ok THEN out.v = inner
                   ELSE /\ ~out.v.ok
                        /\ out.v.err = Error_from(inner.err.e)
        ELSE /\ pendings = 0
             /\ Converted => calls = <<"Result">>
             /\ Done =>
                 /\ polls = 1
                 /\ ~out.v.ok
                 /\ out.v.err = Error_from(responder.res.err)

\* Ok(v) over a handler value whose own conversion fails after suspending
C3_Witness ==
    /\ Done
    /\ responder.kind = "Result" /\ responder.res.ok
    /\ responder.res.val.kind = "Handler"
    /\ ~responder.res.val.out.ok
    /\ ~responder.res.val.out.err.norm
    /\ pendings > 0
    /\ ~out.v.ok /\ out.v.err.norm

(* the decorator's call history *)
StatusCallIdx == {i \in 1..Len(chain) : chain[i].op = "with_status"}

\* the status of the most recent with_status call, if there was one
LastStatusCall ==
    IF StatusCallIdx = {} THEN None
    ELSE Some(chain[CHOOSE i \in StatusCallIdx :
                        \A j \in StatusCallIdx : j <= i].status)

WellFormed(c) ==
    /\ c.op = "with_header"
    /\ HeaderName_try_from(c.key).ok
    /\ IntoHeaderValue_try_into(c.value).ok

Malformed(c) == c.op = "with_header" /\ ~WellFormed(c)

\* the values of the well-formed with_header calls for name n, oldest first
RECURSIVE ValuesIn(_, _)
ValuesIn(cs, n) ==
    IF cs = << >> THEN << >>
    ELSE IF WellFormed(Head(cs)) /\ HeaderName_try_from(Head(cs).key).v = n
    THEN <<IntoHeaderValue_try_into(Head(cs).value).v>>
             \o ValuesIn(Tail(cs), n)
    ELSE ValuesIn(Tail(cs), n)

RecordedFor(n) == ValuesIn(chain, n)

\* the calls of the history without the malformed ones
RECURSIVE WithoutMalformed(_)
WithoutMalformed(cs) ==
    IF cs = << >> THEN << >>
    ELSE IF Malformed(Head(cs)) THEN WithoutMalformed(Tail(cs))
    ELSE <<Head(cs)>> \o WithoutMalformed(Tail(cs))

\* a decorator on which the calls cs are made in order
RECURSIVE Replay(_, _)
Replay(r, cs) ==
    IF cs = << >> THEN r
    ELSE Replay(IF Head(cs).op = "with_status"
                THEN CustomResponder_with_status(r, Head(cs).status)
                ELSE CustomResponder_with_header(r, Head(cs).key,
                                                 Head(cs).value),
                Tail(cs))

IsCustom == responder.kind = "CustomResponder"

\* the history is the list of calls that made the decorator
HistoryOK ==
    /\ chain # << >> <=> IsCustom
    /\ IsCustom =>
           responder = Replay(CustomResponder_new(responder.responder), chain)

\* C4: over a successful inner conversion a CustomResponder resolves to a
\* success whose status is the one of the most recent with_status call made
\* on it (the inner status when there was none), and a (value, StatusCode)
\* tuple to a success with the tuple's status; the body is the inner body.
C4_StatusOverrideInEffect ==
    /\ (IsCustom /\ Done /\ Outcome(responder.responder).out.ok) =>
           LET inner == Outcome(responder.responder).out.resp
           IN /\ out.v.ok
              /\ out.v.resp.status = IF LastStatusCall.some
                                     THEN LastStatusCall.v
                                     ELSE inner.status
              /\ out.v.resp.body = inner.body
    /\ (responder.kind = "Tuple" /\ Done /\ Outcome(responder.inner).out.ok) =>
           LET inner == Outcome(responder.inner).out.resp
           IN /\ out.v.ok
              /\ out.v.resp.status = responder.status
              /\ out.v.resp.body = inner.body

\* two with_status calls with different codes over an inner response whose
\* status is the one of the first call
C4_Witness ==
    /\ Done /\ IsCustom
    /\ Len(chain) = 2
    /\ chain[1].op = "with_status" /\ chain[2].op = "with_status"
    /\ chain[1].status = BAD_REQUEST /\ chain[2].status = OK
    /\ Outcome(responder.responder).out.ok
    /\ Outcome(responder.responder).out.resp.status = BAD_REQUEST
    /\ out.v.resp.status = OK

\* C5: over a successful inner conversion, a header name overridden by one
\* well-formed with_header call has exactly the value of that call in the
\* resolved response, whatever value the inner response had for it; a name
\* that was not overridden keeps the inner values; without a with_status call
\* the status is the inner one; the body is the inner one.
C5_HeaderOverrideReplacesInner ==
    (IsCustom /\ Done /\ Outcome(responder.responder).out.ok) =>
        LET inner == Outcome(responder.responder).out.resp
        IN /\ out.v.ok
           /\ \A n \in HeaderNames :
                 /\ Len(RecordedFor(n)) = 1 =>
                        /\ out.v.resp.headers[n] = RecordedFor(n)
                        /\ HeaderMap_get(out.v.resp.headers, n)
                               = Some(RecordedFor(n)[1])
                 /\ Len(RecordedFor(n)) = 0 =>
                        out.v.resp.headers[n] = inner.headers[n]
           /\ ~LastStatusCall.some => out.v.resp.status = inner.status
           /\ out.v.resp.body = inner.body

\* content-type overridden with "json" over a response that has another
\* content-type and an x-version header
C5_Witness ==
    /\ Done /\ IsCustom
    /\ RecordedFor(CONTENT_TYPE) = <<"json">>
    /\ RecordedFor(X_VERSION) = << >>
    /\ Outcome(responder.responder).out.ok
    /\ Outcome(responder.responder).out.resp.headers[CONTENT_TYPE]
           = <<"text/html">>
    /\ out.v.resp.headers[CONTENT_TYPE] = <<"json">>
    /\ out.v.resp.headers[X_VERSION] = <<"0.9">>

\* C6: converting Either::A(a) (Either::B(b)) makes the respond_to calls of
\* the held value only and yields an EitherResponder with the same tag; the
\* tag is the same in every state of the polling; the future resolves to
\* the held value's response, or to its failure converted into Error.
C6_EitherKeepsItsBranch ==
    (responder.kind = "Either" /\ Converted) =>
        /\ fut.kind = "EitherResponder"
        /\ fut.tag = responder.tag
        /\ calls = <<"Either">> \o respond_to(responder.inner).calls
        /\ Done =>
            LET inner == Outcome(responder.inner)
            IN /\ polls = inner.polls
               /\ IF inner.out.ok THEN out.v = inner.out
                  ELSE /\ ~out.v.ok
                       /\ out.v.err = Error_from(inner.out.err.e)

\* branch B over a value that suspends and then resolves to a 400 response
C6_Witness ==
    /\ Done
    /\ responder.kind = "Either" /\ responder.tag = "B"
    /\ pendings > 0
    /\ fut.tag = "B"
    /\ out.v.ok /\ out.v.resp.status = BAD_REQUEST

\* C7 as stated: an InternalError resolves on the first poll to a failure
C7_InternalErrorResolvesToFailure ==
    (responder.kind = "InternalError" /\ Done) =>
        /\ polls = 1
        /\ ~out.v.ok

\* C7, amended: an InternalError is never seen pending and resolves on the
\* first poll to a success, the response rendered from the error with the
\* status code the error carries; it has no failure path.
C7_InternalErrorResolvesToResponse ==
    responder.kind = "InternalError" =>
        /\ pendings = 0
        /\ Done =>
            /\ polls = 1
            /\ out.v.ok
            /\ out.v.resp.status = responder.e.status

C7_Witness ==
    /\ Done
    /\ responder.kind = "InternalError"
    /\ responder.e.status = BAD_REQUEST
    /\ out.v.ok /\ out.v.resp.status = BAD_REQUEST

(* the wrappers of C8 and the value each of them wraps *)
IsWrapper(r) ==
    \/ r.kind \in {"CustomResponder", "Tuple", "Either"}
    \/ r.kind = "Result" /\ r.res.ok

Wrapped(r) ==
    CASE r.kind = "CustomResponder" -> r.responder
      [] r.kind = "Tuple" -> r.inner
      [] r.kind = "Either" -> r.inner
      [] r.kind = "Result" -> r.res.val

\* the wrappers whose future converts the failure into Error
Normalizes(r) == r.kind \in {"Either", "Result"}

\* C8: when the wrapped conversion resolves to a failure, the wrapper
\* (CustomResponderFut of a decorator or a tuple, EitherResponder,
\* ResponseFuture) resolves to a failure with the same cause, of type Error
\* where the wrapper converts it and of the inner type otherwise, and never
\* to a response, so no override is applied.
C8_FailurePassesThrough ==
    (IsWrapper(responder) /\ Done /\ ~Outcome(Wrapped(responder)).out.ok) =>
        LET inner == Outcome(Wrapped(responder)).out.err
        IN /\ ~out.v.ok
           /\ out.v.err.e = inner.e
           /\ out.v.err.norm = (Normalizes(responder) \/ inner.norm)

\* a decorator holding a status and a header override over a failing value
C8_Witness ==
    /\ Done /\ IsCustom
    /\ responder.status.some
    /\ responder.headers.some
    /\ responder.headers.v[CONTENT_TYPE] # << >>
    /\ ~Outcome(responder.responder).out.ok
    /\ ~out.v.ok
    /\ out.v.err.e = HandlerError

\* C9: with_header always returns the decorator; a malformed call records a
\* pending error and adds no entry, so the entries held are those of the
\* well-formed calls and the status override is the one of the most recent
\* with_status call, whether made before or after the malformed call; a
\* decorator with a pending error over a successful inner conversion
\* resolves to the success that the same calls without the malformed ones
\* resolve to.
C9_MalformedHeaderIsDropped ==
    /\ chain # << >> => IsCustom
    /\ IsCustom =>
        /\ responder.error.some <=> \E i \in 1..Len(chain) : Malformed(chain[i])
        /\ \A n \in HeaderNames :
               IF responder.headers.some
               THEN responder.headers.v[n] = RecordedFor(n)
               ELSE RecordedFor(n) = << >>
        /\ responder.status = LastStatusCall
        /\ (Done /\ responder.error.some
                 /\ Outcome(responder.responder).out.ok) =>
               /\ out.v.ok
               /\ out.v = Outcome(Replay(
                              CustomResponder_new(responder.responder),
                              WithoutMalformed(chain))).out

\* a malformed call followed by a well-formed one that takes effect
C9_Witness ==
    /\ Done /\ IsCustom
    /\ Len(chain) = 2
    /\ Malformed(chain[1])
    /\ WellFormed(chain[2])
    /\ responder.error.some
    /\ out.v.ok
    /\ out.v.resp.headers[CONTENT_TYPE] = <<"json">>

\* C10: the decorator holds every entry of the well-formed with_header
\* calls made on it, and over a successful inner conversion the resolved
\* response carries every one of them.
C10_EveryHeaderOverrideIsCarried ==
    IsCustom =>
        /\ \A n \in HeaderNames :
               IF responder.headers.some
               THEN responder.headers.v[n] = RecordedFor(n)
               ELSE RecordedFor(n) = << >>
        /\ (Done /\ Outcome(responder.responder).out.ok) =>
               /\ out.v.ok
               /\ \A n \in HeaderNames :
                      \A i \in 1..Len(RecordedFor(n)) :
                          \E j \in 1..Len(out.v.resp.headers[n]) :
                              out.v.resp.headers[n][j] = RecordedFor(n)[i]

(* the futures that wrap another future *)
ComposerKinds == {"CustomResponderFut", "EitherResponder", "ResponseFuture"}
NestingKinds == ComposerKinds \cup {"EitherFuture"}

\* every composer in the chain f is pending exactly when the future it
\* wraps is pending on the same poll, and a pending poll changes nothing of
\* it but the state of the wrapped future
RECURSIVE PassesThrough(_)
PassesThrough(f) ==
    IF f.kind \notin NestingKinds THEN TRUE
    ELSE /\ f.kind \in ComposerKinds =>
                LET p == poll(f)
                    q == poll(f.fut)
                IN /\ p.ready <=> q.ready
                   /\ ~q.ready => p.fut = [f EXCEPT !.fut = q.fut]
         /\ PassesThrough(f.fut)

\* the future of the value that the handler's return value wraps
WrappedFut == IF responder.kind = "Result" THEN fut.fut.fut ELSE fut.fut

\* the overrides a decorator or a tuple hands to its future
StatusGiven ==
    IF responder.kind = "Tuple" THEN Some(responder.status)
    ELSE responder.status
HeadersGiven ==
    IF responder.kind = "Tuple" THEN None ELSE responder.headers

IsDecorator == responder.kind \in {"CustomResponder", "Tuple"}

\* while the future is polled: the composers of the whole chain pass
\* Pending through, and the overrides are still the ones given
C11_WhilePolled ==
    phase = "poll" =>
        /\ PassesThrough(fut)
        /\ IsDecorator =>
               /\ fut.status = StatusGiven
               /\ fut.headers = HeadersGiven

\* when the future has resolved: it did so on the poll on which the wrapped
\* future resolves, and the status override was applied and consumed
C11_WhenResolved ==
    (Done /\ IsWrapper(responder)) =>
        LET inner == Outcome(Wrapped(responder))
        IN /\ polls = inner.polls
           /\ pendings = inner.pendings
           /\ (IsDecorator /\ inner.out.ok) =>
                  /\ out.v.ok
                  /\ fut.status = None
                  /\ fut.headers = HeadersGiven
                  /\ StatusGiven.some =>
                         out.v.resp.status = StatusGiven.v
                  /\ out.v.resp.body = inner.out.resp.body

\* a poll of a wrapper returns Pending exactly when the poll of the wrapped
\* future does; a pending poll keeps the overrides and yields no value
C11_PollStep ==
    (phase = "poll" /\ polls' = polls + 1 /\ IsWrapper(responder)) =>
        LET q == poll(WrappedFut)
        IN /\ (phase' = "poll") <=> ~q.ready
           /\ (phase' = "done") <=> q.ready
           /\ ~q.ready =>
                  /\ out' = None
                  /\ pendings' = pendings + 1
                  /\ IsDecorator =>
                         /\ fut'.status = fut.status
                         /\ fut'.headers = fut.headers
                         /\ fut'.fut = q.fut

\* C11: CustomResponderFut, EitherResponder and ResponseFuture, also when
\* nested, return Pending on a poll exactly when the future they wrap does;
\* a pending poll leaves the status and header overrides as they were; the
\* wrapper resolves on the poll on which the wrapped future resolves, with
\* the overrides applied then and the status override consumed; and a future
\* that the driver keeps polling resolves: no behaviour stays forever in the
\* phase where the future is polled and pending.
C11_ComposersPassThrough ==
    /\ [](C11_WhilePolled /\ C11_WhenResolved)
    /\ [][C11_PollStep]_vars
    /\ []<>(phase # "poll")

\* a decorator with a status override over an Either or an Ok(..) over a
\* value that suspended before it resolved
C11_Witness ==
    /\ Done /\ IsCustom
    /\ responder.status.some
    /\ responder.responder.kind \in {"Either", "Result"}
    /\ pendings > 0
    /\ out.v.ok
    /\ out.v.resp.status = responder.status.v
    /\ out.v.resp.status # Outcome(responder.responder).out.resp.status
    /\ fut.status = None

====
